---- MODULE Spec2Model ----
(***************************************************************************)
(* The wallet linker of origin-bridge (src/logic/linker_service.py): the   *)
(* pairing records (LinkedTokens), the browser sessions (LinkedSession)    *)
(* and the two mailboxes (LinkedMessage, WalletMessage), with one action   *)
(* per service function.                                                   *)
(*                                                                         *)
(* Six specifications share the same step operators.  Spec, SpecMail and   *)
(* SpecWallet run every call of the service to completion before the next  *)
(* one starts: Spec is the pairing state machine with codes that expire,   *)
(* SpecMail adds the client mailbox, SpecWallet both mailboxes, and        *)
(* SpecPending is the pairing of one record with a pending call.  SpecConc *)
(* lets the calls that read and later commit (generate_code, link_wallet)  *)
(* overlap: each of their database round trips is one step, and steps of   *)
(* different requests interleave.  A commit writes the attributes the      *)
(* request assigned, to the row as it is at that moment.  SpecPoll runs    *)
(* each poll of a mailbox as its delete followed by its select.            *)
(***************************************************************************)
EXTENDS Integers, Sequences, FiniteSets, TLC

VARIABLES
    tokens,           \* table LinkedTokens: row i has id i
    sessions,         \* table LinkedSession: row i has id i
    linked_msgs,      \* table LinkedMessage (the client mailboxes)
    wallet_msgs,      \* table WalletMessage (the wallet mailboxes)
    next_lm_id,       \* autoincrement of LinkedMessage.id
    next_wm_id,       \* autoincrement of WalletMessage.id
    now,              \* utcnow(), in minutes
    inflight,         \* requests between two of their steps (SpecConc)
    started,          \* the requests SpecConc has started
    successes,        \* history (SpecConc): per <<record id, code>>, the link_wallet
                      \* calls that succeeded with it since the code was last issued
    seen              \* history (SpecPoll): the messages the polls have returned

vars == <<tokens, sessions, linked_msgs, wallet_msgs, next_lm_id,
          next_wm_id, now, inflight, successes, started, seen>>

---------------------------------------------------------------------------
(* Bounds of the model. *)
MaxRecords == 2
MaxSessions == 2
MaxMsgId == 4
MaxWalletMsgId == 2
MaxTime == 60
MaxInFlight == 2
\* the records of the specification that runs both mailboxes
MaxWalletSpecRecords == 1
\* the generate_code and link_wallet requests the overlapping runs start
MaxRequests == 4

(* Program constant. *)
CODE_EXPIRATION_TIME_MINUTES == 60

(* Values.  None is Python's None for string-valued columns and arguments. *)
None == "None"
Codes == {"A", "B"}
WalletTokens == {"w1", "w2"}
NoAccounts == <<>>
AccountLists == {<<"a1">>, <<"a2">>}
\* what a wallet reports when it links: its own rpc and accounts
WalletRpc(wallet_token) == IF wallet_token = "w1" THEN "rpc1" ELSE "rpc2"
WalletAccounts(wallet_token) == IF wallet_token = "w1" THEN <<"a1">> ELSE <<"a2">>
CallIds == {"c1", "c2"}
Results == {"r1"}
NoToken == <<>>
NoSession == 0
NoCursor == -1
NoCall == [call_id |-> None, session_token |-> NoSession]
TickSteps == {CODE_EXPIRATION_TIME_MINUTES}

(* uuid.uuid1(): the k-th client token. *)
ClientUuid(k) == <<"ct", k>>
ClientTokens == {ClientUuid(k) : k \in 1..MaxRecords}
SessionTokens == 1..MaxSessions

(* The tables as one value, so that a call's steps compose. *)
DB == [tokens |-> tokens, sessions |-> sessions, lm |-> linked_msgs,
       wm |-> wallet_msgs, nl |-> next_lm_id, nw |-> next_wm_id]

SetDB(D) ==
    /\ tokens' = D.tokens
    /\ sessions' = D.sessions
    /\ linked_msgs' = D.lm
    /\ wallet_msgs' = D.wm
    /\ next_lm_id' = D.nl
    /\ next_wm_id' = D.nw

(* What a call returns: ok is its success flag, raised an exception. *)
NoResult ==
    [op |-> "init", ok |-> FALSE, raised |-> FALSE, rec |-> 0,
     client_token |-> NoToken, session_token |-> NoSession, code |-> None,
     wallet_token |-> None, linked |-> FALSE, pending |-> NoCall,
     return_url |-> None, cursor |-> NoCursor, accounts |-> NoAccounts,
     msgs |-> {}, notify |-> None]

Min(S) == CHOOSE m \in S : \A n \in S : m <= n

---------------------------------------------------------------------------
(* Queries. *)

\* LinkedTokens.query.filter_by(client_token = ...).first(); 0 for no row
ByClientToken(T, client_token) ==
    LET S == {i \in DOMAIN T : T[i].client_token = client_token}
    IN IF S = {} THEN 0 ELSE Min(S)

\* faulty variant: a code still counts at the minute it expires
ActiveByCode_AtExpiry(T, code, t) ==
    {i \in DOMAIN T : T[i].code = code /\ T[i].code_expires >= t}

\* LinkedTokens.query.filter_by(code = code).filter(code_expires > utcnow())
ActiveByCode(T, code, t) ==
    {i \in DOMAIN T : T[i].code = code /\ T[i].code_expires > t}

\* LinkedSession.query.filter_by(session_token = ..., linked_id = ...).first()
SessionOf(S, session_token, linked_id) ==
    LET M == {i \in DOMAIN S : S[i].session_token = session_token
                               /\ S[i].linked_id = linked_id}
    IN IF M = {} THEN 0 ELSE Min(M)

\* LinkedSession.query.filter_by(session_token = ...).first()
SessionByToken(S, session_token) ==
    LET M == {i \in DOMAIN S : S[i].session_token = session_token}
    IN IF M = {} THEN 0 ELSE Min(M)

\* LinkedSession.query.filter_by(linked_id = ...)
SessionsOf(S, linked_id) == {i \in DOMAIN S : S[i].linked_id = linked_id}

\* "%d" % n: the decimal digits of n
RECURSIVE Digits(_)
Digits(n) == IF n < 10 THEN <<n>> ELSE Digits(n \div 10) \o <<n % 10>>

_hash_id_IdOnly(exposed_id, key) == Digits(exposed_id)

\* _hash_id: sha3_224 of "%d%s" % (exposed_id, key), taken as free of collisions
\* on the formatted string, which is the digits of the id followed by the key
_hash_id(exposed_id, key) == Digits(exposed_id) \o key

\* _generate_code: a draw that passes the uniqueness check, or the exception
\* when every one of the draws hit an active code (some code must be active)
RaiseDraw == "raise"
_generate_code(T, t) ==
    {c \in Codes : ActiveByCode(T, c, t) = {}}
        \cup (IF \E c \in Codes : ActiveByCode(T, c, t) # {}
              THEN {RaiseDraw} ELSE {})

---------------------------------------------------------------------------
(* Mailbox writes. *)

LinkedMessage(id, session_id, type, rpc, accounts, call_id, result) ==
    [id |-> id, session_id |-> session_id, type |-> type, rpc |-> rpc,
     accounts |-> accounts, call_id |-> call_id, result |-> result]

\* send_init_messages: NETWORK, then ACCOUNTS, ids in the order added
send_init_messages(D, session_id, linked_obj) ==
    [D EXCEPT
        !.lm = @ \cup
            {LinkedMessage(D.nl, session_id, "NETWORK",
                           linked_obj.current_rpc, NoAccounts, None, None),
             LinkedMessage(D.nl + 1, session_id, "ACCOUNTS",
                           None, linked_obj.current_accounts, None, None)},
        !.nl = @ + 2]

\* faulty variant: the new session is never seeded
generate_init_session_NoSeed(D, rec) ==
    [D EXCEPT !.sessions =
        Append(@, [session_token |-> Len(D.sessions) + 1, linked_id |-> rec])]

\* generate_init_session: a new session row, seeded when the record is linked;
\* the session token (a uuid1) is modelled by the new row's id
generate_init_session(D, rec) ==
    LET sid == Len(D.sessions) + 1
        D1 == [D EXCEPT !.sessions =
                   Append(@, [session_token |-> sid, linked_id |-> rec])]
    IN IF D1.tokens[rec].linked
       THEN send_init_messages(D1, sid, D1.tokens[rec])
       ELSE D1

---------------------------------------------------------------------------
(* generate_code, in three steps: lines 42-58 (load the record, draw the     *)
(* code), lines 60-66 (commit, ensure the session, read linked again) and    *)
(* lines 67-76 (store the pending call, return).                            *)

NewObj(client_token) ==
    [client_token |-> client_token, code |-> None, code_expires |-> 0,
     linked |-> FALSE, wallet_token |-> None, current_rpc |-> None,
     current_accounts |-> NoAccounts, pending_call |-> NoCall,
     current_return_url |-> None]

\* the record generate_code works on: 0 for a new one, -1 when the query finds none
GenRec(D, client_token) ==
    IF client_token = NoToken THEN 0
    ELSE IF ByClientToken(D.tokens, client_token) = 0 THEN -1
    ELSE ByClientToken(D.tokens, client_token)

GenLinked_NeverLinked(D, client_token, force_relink) == FALSE

GenLinked_ForceIgnored(D, client_token, force_relink) ==
    LET rec == GenRec(D, client_token)
    IN IF rec <= 0 THEN FALSE ELSE D.tokens[rec].linked

\* linked_obj.linked at line 54, after the force_relink assignment
GenLinked(D, client_token, force_relink) ==
    LET rec == GenRec(D, client_token)
    IN IF rec <= 0 \/ force_relink THEN FALSE ELSE D.tokens[rec].linked

\* the outcomes of line 57; None when the line is not reached
GenDraws(D, t, client_token, force_relink) ==
    IF GenRec(D, client_token) = -1 \/ GenLinked(D, client_token, force_relink)
    THEN {None}
    ELSE _generate_code(D.tokens, t)

\* lines 42-58.  pc "raise": linked_obj is None (line 52 or 54), or line 29
generate_code_load(D, t, client_token, session_token, return_url, pending_call, force_relink, draw, fresh) ==
    LET rec == GenRec(D, client_token)
        gen == rec >= 0 /\ ~GenLinked(D, client_token, force_relink)
    IN [op |-> "generate_code",
        pc |-> IF rec = -1 \/ draw = RaiseDraw THEN "raise" ELSE "commit",
        rec |-> rec,
        client_token |-> IF rec = 0 THEN fresh ELSE client_token,
        force |-> force_relink,
        \* the query of line 27 flushes what line 52-53 changed: the row is
        \* write-locked from then to the commit
        flushed |-> rec > 0 /\ force_relink /\ draw # RaiseDraw
                    /\ (D.tokens[rec].linked \/ D.tokens[rec].wallet_token # None),
        gen |-> gen,
        code |-> draw,
        code_expires |-> t + CODE_EXPIRATION_TIME_MINUTES,
        return_url |-> return_url,
        session_token |-> session_token,
        pending_call |-> pending_call]

\* faulty variant: a code the row still holds is kept
GenRow_KeepsCode(row, L) ==
    LET r1 == IF L.force
              THEN [row EXCEPT !.linked = FALSE, !.wallet_token = None]
              ELSE row
    IN IF L.gen /\ row.code = None
       THEN [r1 EXCEPT !.code = L.code, !.code_expires = L.code_expires,
                       !.current_return_url = L.return_url]
       ELSE r1

\* lines 51-61: the attributes assigned, written to the row as it is now
GenRow(row, L) ==
    LET r1 == IF L.force
              THEN [row EXCEPT !.linked = FALSE, !.wallet_token = None]
              ELSE row
    IN IF L.gen
       THEN [r1 EXCEPT !.code = L.code, !.code_expires = L.code_expires,
                       !.current_return_url = L.return_url]
       ELSE r1

GenCommitted(D, L) ==
    IF L.rec = 0
    THEN [D EXCEPT !.tokens = Append(@, GenRow(NewObj(L.client_token), L))]
    ELSE [D EXCEPT !.tokens[L.rec] = GenRow(@, L)]

\* lines 73-76, on the row as the database holds it
GenReturn(D, rec, client_token, session_token) ==
    [NoResult EXCEPT
        !.op = "generate_code", !.ok = TRUE, !.rec = rec,
        !.client_token = client_token, !.session_token = session_token,
        !.code = IF D.tokens[rec].linked THEN "" ELSE D.tokens[rec].code,
        !.linked = D.tokens[rec].linked]

\* lines 60-66
generate_code_commit(D, L) ==
    LET D1 == GenCommitted(D, L)
        rec == IF L.rec = 0 THEN Len(D1.tokens) ELSE L.rec
        has == L.session_token # NoSession
               /\ SessionOf(D1.sessions, L.session_token, rec) # 0
        D2 == IF has THEN D1 ELSE generate_init_session(D1, rec)
        st == IF has THEN L.session_token ELSE Len(D2.sessions)
        pend == L.pending_call # None /\ ~D2.tokens[rec].linked
    IN [D |-> D2,
        L |-> [L EXCEPT !.pc = IF pend THEN "pending" ELSE "done",
                        !.rec = rec, !.session_token = st, !.flushed = FALSE],
        ret |-> GenReturn(D2, rec, L.client_token, st)]

\* faulty variant: a pending call the record already holds is kept
generate_code_pending_KeepsOld(D, L) ==
    LET D1 == IF D.tokens[L.rec].pending_call # NoCall THEN D
              ELSE [D EXCEPT !.tokens[L.rec].pending_call =
                       [call_id |-> L.pending_call, session_token |-> L.session_token]]
    IN [D |-> D1,
        ret |-> GenReturn(D1, L.rec, L.client_token, L.session_token)]

\* lines 67-76
generate_code_pending(D, L) ==
    LET D1 == [D EXCEPT !.tokens[L.rec].pending_call =
                   [call_id |-> L.pending_call, session_token |-> L.session_token]]
    IN [D |-> D1,
        ret |-> GenReturn(D1, L.rec, L.client_token, L.session_token)]

---------------------------------------------------------------------------
(* link_wallet, in two steps: lines 179-185 (find the record by its code)   *)
(* and lines 187-203 (update it, fan out to its sessions, commit).          *)

LinkFailed(wallet_token, code) ==
    [NoResult EXCEPT !.op = "link_wallet", !.ok = FALSE, !.code = code,
                    !.wallet_token = wallet_token, !.return_url = ""]

\* lines 179-185; first() is any of the rows the query matches
link_wallet_load(D, wallet_token, code, current_rpc, current_accounts, rec) ==
    [op |-> "link_wallet", pc |-> "commit", rec |-> rec, flushed |-> FALSE,
     wallet_token |-> wallet_token, code |-> code,
     current_rpc |-> current_rpc, current_accounts |-> current_accounts,
     last_pending_call |-> D.tokens[rec].pending_call]

\* faulty variant: only the first session of the record is told
FanOut_FirstSession(D, S, linked_obj) ==
    IF S = {} THEN D ELSE send_init_messages(D, Min(S), linked_obj)

\* lines 198-200, the sessions taken in the order of their ids
RECURSIVE FanOut(_, _, _)
FanOut(D, S, linked_obj) ==
    IF S = {} THEN D
    ELSE FanOut(send_init_messages(D, Min(S), linked_obj), S \ {Min(S)}, linked_obj)

\* faulty variant: the pending call stays on the record
LinkRow_KeepsPending(row, L) ==
    [row EXCEPT !.wallet_token = L.wallet_token, !.code = None, !.linked = TRUE,
                !.current_rpc = L.current_rpc,
                !.current_accounts = L.current_accounts]

\* lines 187-196: the attributes link_wallet assigns
LinkRow(row, L) ==
    [row EXCEPT !.wallet_token = L.wallet_token,
                !.code = None,
                !.linked = TRUE,
                !.current_rpc = L.current_rpc,
                !.current_accounts = L.current_accounts,
                !.pending_call = NoCall]

\* faulty variant: the pending call is also put into the wallet's mailbox
link_wallet_commit_EnqueuesPending(D, L) ==
    LET row == LinkRow(D.tokens[L.rec], L)
        D1 == [D EXCEPT !.tokens[L.rec] = row]
        D2 == FanOut(D1, SessionsOf(D1.sessions, L.rec), row)
        D3 == IF L.last_pending_call = NoCall THEN D2
              ELSE [D2 EXCEPT
                      !.wm = @ \cup
                          {[id |-> D2.nw, wallet_token |-> L.wallet_token,
                            current_accounts |-> L.current_accounts,
                            type |-> "CALL",
                            call_id |-> L.last_pending_call.call_id,
                            session_token |-> L.last_pending_call.session_token,
                            return_url |-> None]},
                      !.nw = @ + 1]
    IN [D |-> D3,
        ret |-> [NoResult EXCEPT
                    !.op = "link_wallet", !.ok = TRUE, !.rec = L.rec,
                    !.code = L.code, !.wallet_token = L.wallet_token,
                    !.client_token = row.client_token,
                    !.return_url = row.current_return_url,
                    !.pending = L.last_pending_call,
                    !.linked = TRUE]]

\* lines 187-203
link_wallet_commit(D, L) ==
    LET row == LinkRow(D.tokens[L.rec], L)
        D1 == [D EXCEPT !.tokens[L.rec] = row]
        D2 == FanOut(D1, SessionsOf(D1.sessions, L.rec), row)
    IN [D |-> D2,
        ret |-> [NoResult EXCEPT
                    !.op = "link_wallet", !.ok = TRUE, !.rec = L.rec,
                    !.code = L.code, !.wallet_token = L.wallet_token,
                    !.client_token = row.client_token,
                    !.return_url = row.current_return_url,
                    !.pending = L.last_pending_call,
                    !.linked = TRUE]]

\* link_info, lines 205-210, on the row rec that first() gives (0 for none)
link_info(D, rec) ==
    IF rec = 0 \/ D.tokens[rec].linked
    THEN [found |-> FALSE, return_url |-> "", link_id |-> None, code_expires |-> 0]
    ELSE [found |-> TRUE, return_url |-> D.tokens[rec].current_return_url,
          link_id |-> _hash_id(rec, D.tokens[rec].client_token),
          code_expires |-> D.tokens[rec].code_expires]

---------------------------------------------------------------------------
(* unlink and unlink_wallet. *)

unlink_Toggle(D, client_token) ==
    LET rec == ByClientToken(D.tokens, client_token)
    IN [D |-> IF rec = 0 THEN D
              ELSE [D EXCEPT !.tokens[rec].linked = ~D.tokens[rec].linked],
        ret |-> [NoResult EXCEPT !.op = "unlink", !.ok = TRUE, !.rec = rec,
                                !.client_token = client_token]]

\* unlink, lines 265-273
unlink(D, client_token) ==
    LET rec == ByClientToken(D.tokens, client_token)
    IN [D |-> IF rec = 0 \/ ~D.tokens[rec].linked THEN D
              ELSE [D EXCEPT !.tokens[rec].linked = FALSE],
        ret |-> [NoResult EXCEPT !.op = "unlink", !.ok = TRUE, !.rec = rec,
                                !.client_token = client_token]]

\* unlink_wallet, lines 275-283: the first row of the wallet that is linked and
\* whose external id is link_id
UnlinkWalletRec_AnyWallet(D, wallet_token, link_id) ==
    LET S == {i \in DOMAIN D.tokens :
                /\ D.tokens[i].linked
                /\ _hash_id(i, D.tokens[i].client_token) = link_id}
    IN IF S = {} THEN 0 ELSE Min(S)

UnlinkWalletRec(D, wallet_token, link_id) ==
    LET S == {i \in DOMAIN D.tokens :
                /\ D.tokens[i].wallet_token = wallet_token
                /\ D.tokens[i].linked
                /\ _hash_id(i, D.tokens[i].client_token) = link_id}
    IN IF S = {} THEN 0 ELSE Min(S)

unlink_wallet(D, wallet_token, link_id) ==
    LET rec == UnlinkWalletRec(D, wallet_token, link_id)
    IN [D |-> IF rec = 0 THEN D
              ELSE [D EXCEPT !.tokens[rec].linked = FALSE,
                             !.tokens[rec].wallet_token = ""],
        ret |-> [NoResult EXCEPT !.op = "unlink_wallet", !.ok = rec # 0,
                                !.rec = rec, !.wallet_token = wallet_token]]

---------------------------------------------------------------------------
(* The client mailbox: get_linked_messages and link_messages. *)

\* faulty variant: the delete is not restricted to the session
PurgeLinked_AllSessions(D, session_id, last_message_id) ==
    IF last_message_id = NoCursor THEN D
    ELSE [D EXCEPT !.lm = {m \in @ : m.id > last_message_id}]

\* lines 81-83: the delete of a purging poll, committed on its own
PurgeLinked(D, session_id, last_message_id) ==
    IF last_message_id = NoCursor THEN D
    ELSE [D EXCEPT !.lm = {m \in @ : ~(m.session_id = session_id
                                       /\ m.id <= last_message_id)}]

\* lines 87 and 158, "for db_message in <query>": the query has no ORDER BY, so
\* the rows S come in any order; the lists a poll may return
RowOrders(S) ==
    {f \in [1..Cardinality(S) -> S] : \A m \in S : \E k \in 1..Cardinality(S) : f[k] = m}

\* lines 88-97: a row as the poll returns it
LinkedMessageDict(m) ==
    CASE m.type = "NETWORK" ->
            [type |-> m.type, id |-> m.id, network_rpc |-> m.rpc]
      [] m.type = "ACCOUNTS" ->
            [type |-> m.type, id |-> m.id, accounts |-> m.accounts]
      [] OTHER ->
            [type |-> m.type, id |-> m.id, result |-> m.result, call_id |-> m.call_id]

\* lines 79, 84-98
SelectLinked(D, session_id, last_message_id) ==
    {LinkedMessageDict(m) :
        m \in {x \in D.lm : /\ x.session_id = session_id
                            /\ (last_message_id = NoCursor \/ x.id > last_message_id)}}

\* get_linked_messages with purge = True
get_linked_messages(D, session_id, last_message_id) ==
    LET D1 == PurgeLinked(D, session_id, last_message_id)
    IN [D |-> D1, msgs |-> SelectLinked(D1, session_id, last_message_id)]

\* faulty variant: the poll does not look at linked
link_messages_SkipsLinked(D, client_token, session_token, last_message_id) ==
    LET rec == ByClientToken(D.tokens, client_token)
        ev == [NoResult EXCEPT !.op = "link_messages", !.ok = TRUE,
                              !.cursor = last_message_id]
    IN IF client_token = NoToken
       THEN [D |-> D, ret |-> ev]
       ELSE IF rec = 0
       THEN [D |-> D, ret |-> [ev EXCEPT !.client_token = <<"">>]]
       ELSE
         LET has == session_token # NoSession
                    /\ SessionOf(D.sessions, session_token, rec) # 0
             D1 == IF has THEN D ELSE generate_init_session(D, rec)
             st == IF has THEN session_token ELSE Len(D1.sessions)
             got == get_linked_messages(D1, SessionOf(D1.sessions, st, rec),
                                        last_message_id)
         IN [D |-> got.D,
             ret |-> [ev EXCEPT !.rec = rec, !.client_token = client_token,
                                !.session_token = st, !.msgs = got.msgs,
                                !.linked = D.tokens[rec].linked]]

\* link_messages, lines 120-144
link_messages(D, client_token, session_token, last_message_id) ==
    LET rec == ByClientToken(D.tokens, client_token)
        ev == [NoResult EXCEPT !.op = "link_messages", !.ok = TRUE,
                              !.cursor = last_message_id]
    IN IF client_token = NoToken
       THEN [D |-> D, ret |-> ev]
       ELSE IF rec = 0
       THEN [D |-> D, ret |-> [ev EXCEPT !.client_token = <<"">>]]
       ELSE IF ~D.tokens[rec].linked
       THEN [D |-> D, ret |-> [ev EXCEPT !.rec = rec, !.client_token = client_token,
                                         !.session_token = session_token]]
       ELSE
         LET has == session_token # NoSession
                    /\ SessionOf(D.sessions, session_token, rec) # 0
             D1 == IF has THEN D ELSE generate_init_session(D, rec)
             st == IF has THEN session_token ELSE Len(D1.sessions)
             got == get_linked_messages(D1, SessionOf(D1.sessions, st, rec),
                                        last_message_id)
         IN [D |-> got.D,
             ret |-> [ev EXCEPT !.rec = rec, !.client_token = client_token,
                                !.session_token = st, !.msgs = got.msgs,
                                !.linked = TRUE]]

---------------------------------------------------------------------------
(* The wallet mailbox: wallet_messages, call_wallet; and wallet_called. *)

Contains(list, x) == \E i \in DOMAIN list : list[i] = x

\* faulty variant: every message of the wallet token, whatever its accounts
WalletMatch_TokenOnly(m, wallet_token, accounts) ==
    m.wallet_token = wallet_token

\* faulty variant: every message with the account, whatever its wallet token
WalletMatch_AccountsOnly(m, wallet_token, accounts) ==
    Contains(m.current_accounts, accounts[1])

\* line 151: the rows of a wallet poll
WalletMatch(m, wallet_token, accounts) ==
    m.wallet_token = wallet_token /\ Contains(m.current_accounts, accounts[1])

\* faulty variant: the session token is left out of the call
WalletMessageDict_NoSession(m) ==
    [type |-> m.type, id |-> m.id, call_id |-> m.call_id, session_token |-> NoSession]

\* lines 159-169
WalletMessageDict(m) ==
    IF m.return_url # None
    THEN [type |-> m.type, id |-> m.id, call_id |-> m.call_id,
          session_token |-> m.session_token, return_url |-> m.return_url]
    ELSE [type |-> m.type, id |-> m.id, call_id |-> m.call_id,
          session_token |-> m.session_token]

\* wallet_messages, lines 146-170
wallet_messages(D, wallet_token, accounts, last_message_id) ==
    LET ev == [NoResult EXCEPT !.op = "wallet_messages", !.ok = TRUE,
                              !.wallet_token = wallet_token,
                              !.accounts = accounts, !.cursor = last_message_id]
        D1 == IF last_message_id = NoCursor THEN D
              ELSE [D EXCEPT !.wm =
                       {m \in @ : ~(WalletMatch(m, wallet_token, accounts)
                                    /\ m.id <= last_message_id)}]
    IN IF wallet_token = None
       THEN [D |-> D, ret |-> ev]
       ELSE [D |-> D1,
             ret |-> [ev EXCEPT !.msgs =
                        {WalletMessageDict(m) :
                            m \in {x \in D1.wm :
                                     /\ WalletMatch(x, wallet_token, accounts)
                                     /\ (last_message_id = NoCursor
                                         \/ x.id > last_message_id)}}]]

\* faulty variant: the record of the client, linked or not
LinkedByClientToken_AnyRecord(T, client_token) ==
    LET S == {i \in DOMAIN T : T[i].client_token = client_token}
    IN IF S = {} THEN 0 ELSE Min(S)

\* lines 218-219: filter_by(client_token = ..., linked = True).first(); 0 for no row
LinkedByClientToken(T, client_token) ==
    LET S == {i \in DOMAIN T : T[i].client_token = client_token /\ T[i].linked}
    IN IF S = {} THEN 0 ELSE Min(S)

\* faulty variant: the session is looked up by its token alone
call_wallet_AnySession(D, client_token, session_token, accounts, call_id, return_url, info) ==
    LET rec == LinkedByClientToken(D.tokens, client_token)
        ev == [NoResult EXCEPT !.op = "call_wallet", !.client_token = client_token,
                              !.session_token = session_token, !.rec = rec]
    IN IF client_token = NoToken \/ rec = 0
       THEN [D |-> D, ret |-> ev]
       ELSE IF SessionByToken(D.sessions, session_token) = 0
       THEN [D |-> D, ret |-> [ev EXCEPT !.raised = TRUE]]
       ELSE [D |-> [D EXCEPT
                       !.wm = @ \cup
                           {[id |-> D.nw,
                             wallet_token |-> D.tokens[rec].wallet_token,
                             current_accounts |-> accounts, type |-> "CALL",
                             call_id |-> call_id,
                             session_token |-> session_token,
                             return_url |-> return_url]},
                       !.nw = @ + 1],
             ret |-> [ev EXCEPT !.ok = TRUE,
                                !.notify = IF info THEN "INFO_TRANSACTION_PENDING"
                                           ELSE "TRANSACTION_PENDING"]]

\* call_wallet, lines 215-246.  info: whether the dissector found an 'info'
call_wallet(D, client_token, session_token, accounts, call_id, return_url, info) ==
    LET rec == LinkedByClientToken(D.tokens, client_token)
        ev == [NoResult EXCEPT !.op = "call_wallet", !.client_token = client_token,
                              !.session_token = session_token, !.rec = rec]
    IN IF client_token = NoToken \/ rec = 0
       THEN [D |-> D, ret |-> ev]
       ELSE IF SessionOf(D.sessions, session_token, rec) = 0
       THEN [D |-> D, ret |-> [ev EXCEPT !.raised = TRUE]]   \* line 229
       ELSE [D |-> [D EXCEPT
                       !.wm = @ \cup
                           {[id |-> D.nw,
                             wallet_token |-> D.tokens[rec].wallet_token,
                             current_accounts |-> accounts, type |-> "CALL",
                             call_id |-> call_id,
                             session_token |-> session_token,
                             return_url |-> return_url]},
                       !.nw = @ + 1],
             ret |-> [ev EXCEPT !.ok = TRUE,
                                !.notify = IF info THEN "INFO_TRANSACTION_PENDING"
                                           ELSE "TRANSACTION_PENDING"]]

\* faulty variant: any wallet may answer
SameWallet_Unchecked(linked_obj, wallet_token) == TRUE

\* line 255: linked_obj.wallet_token == wallet_token
SameWallet(linked_obj, wallet_token) == linked_obj.wallet_token = wallet_token

\* wallet_called, lines 248-263
wallet_called(D, wallet_token, call_id, session_token, result) ==
    LET sid == SessionByToken(D.sessions, session_token)
        ev == [NoResult EXCEPT !.op = "wallet_called", !.wallet_token = wallet_token,
                              !.session_token = session_token]
    IN IF sid = 0
       THEN [D |-> D, ret |-> [ev EXCEPT !.raised = TRUE]]
       ELSE IF D.sessions[sid].linked_id \notin DOMAIN D.tokens
       THEN [D |-> D, ret |-> [ev EXCEPT !.raised = TRUE]]
       ELSE IF ~SameWallet(D.tokens[D.sessions[sid].linked_id], wallet_token)
       THEN [D |-> D, ret |-> [ev EXCEPT !.raised = TRUE,
                                         !.rec = D.sessions[sid].linked_id]]
       ELSE [D |-> [D EXCEPT
                       !.lm = @ \cup {LinkedMessage(D.nl, sid, "CALL_RESPONSE",
                                                    None, NoAccounts, call_id, result)},
                       !.nl = @ + 1],
             ret |-> [ev EXCEPT !.ok = TRUE, !.rec = D.sessions[sid].linked_id]]

---------------------------------------------------------------------------
(* generate_code and link_wallet run to completion. *)

generate_code(D, t, client_token, session_token, return_url, pending_call, force_relink, draw, fresh) ==
    LET L == generate_code_load(D, t, client_token, session_token, return_url,
                                pending_call, force_relink, draw, fresh)
        b == generate_code_commit(D, L)
    IN IF L.pc = "raise"
       THEN [D |-> D, ret |-> [NoResult EXCEPT !.op = "generate_code",
                                               !.raised = TRUE]]
       ELSE IF b.L.pc = "pending"
       THEN generate_code_pending(b.D, b.L)
       ELSE [D |-> b.D, ret |-> b.ret]

\* the row first() gives link_wallet: any row the query matches, 0 for none
LinkPicks(D, code, t) ==
    IF ActiveByCode(D.tokens, code, t) = {} THEN {0} ELSE ActiveByCode(D.tokens, code, t)

link_wallet(D, t, wallet_token, code, current_rpc, current_accounts, rec) ==
    IF rec = 0
    THEN [D |-> D, ret |-> LinkFailed(wallet_token, code)]
    ELSE link_wallet_commit(D, link_wallet_load(D, wallet_token, code, current_rpc,
                                                current_accounts, rec))

---------------------------------------------------------------------------
(* The arguments the calls are tried with. *)
UnknownClientToken == <<"ct", 0>>
ClientArgs == ClientTokens \cup {NoToken, UnknownClientToken}
SessionArgs == SessionTokens \cup {NoSession}
PendingArgs == {None, "c1"}
CallReturnUrls == {None, "u1"}

\* the tables stay within the bounds of the model
WithinBounds(D) ==
    /\ Len(D.tokens) <= MaxRecords
    /\ Len(D.sessions) <= MaxSessions
    /\ D.nl <= MaxMsgId + 1
    /\ D.nw <= MaxWalletMsgId + 1

\* uuid1 is fresh: the first client token no row and no request holds
FreshClientToken ==
    ClientUuid(Min({k \in 1..(MaxRecords + MaxInFlight) :
        /\ \A i \in DOMAIN tokens : tokens[i].client_token # ClientUuid(k)
        /\ \A j \in DOMAIN inflight :
              inflight[j].op = "generate_code" => inflight[j].client_token # ClientUuid(k)}))

\* another request's flushed, uncommitted UPDATE holds the row
RowLocked(rec, self) ==
    \E j \in DOMAIN inflight : j # self /\ inflight[j].flushed /\ inflight[j].rec = rec

Remove(seq, i) == [j \in 1..(Len(seq) - 1) |-> IF j < i THEN seq[j] ELSE seq[j + 1]]

Init ==
    /\ tokens = <<>>
    /\ sessions = <<>>
    /\ linked_msgs = {}
    /\ wallet_msgs = {}
    /\ next_lm_id = 1
    /\ next_wm_id = 1
    /\ now = 0
    /\ inflight = <<>>
    /\ started = 0
    /\ successes = [p \in (1..MaxRecords) \X Codes |-> 0]
    /\ seen = {}

---------------------------------------------------------------------------
(* The calls as actions, each run to completion.  A call that changes no    *)
(* table is a stuttering step, so the actions draw the tokens and cursors   *)
(* from those the tables hold; the claims range over all arguments.         *)

LiveClients == {tokens[i].client_token : i \in DOMAIN tokens}
LiveSessions == {sessions[i].session_token : i \in DOMAIN sessions}
LiveLinkIds == {_hash_id(i, tokens[i].client_token) : i \in DOMAIN tokens}

\* utcnow() advances
Tick ==
    \E d \in TickSteps :
        /\ now + d <= MaxTime
        /\ now' = now + d
        /\ UNCHANGED <<tokens, sessions, linked_msgs, wallet_msgs, next_lm_id,
                       next_wm_id, inflight, successes, started, seen>>

\* a call that runs in one step, with its result D, ret
Atomic(out) ==
    /\ WithinBounds(out.D)
    /\ SetDB(out.D)
    /\ UNCHANGED <<now, inflight, successes, started, seen>>

\* generate_code, its return_url and pending_call drawn from the given sets
GenerateCodeOver(Urls, Pendings, max_records, max_sessions) ==
    \E client_token \in LiveClients \cup {NoToken},
       session_token \in LiveSessions \cup {NoSession},
       return_url \in Urls, pending_call \in Pendings, force_relink \in BOOLEAN :
      \E draw \in GenDraws(DB, now, client_token, force_relink) :
        LET out == generate_code(DB, now, client_token, session_token, return_url,
                                 pending_call, force_relink, draw, FreshClientToken)
        IN /\ Len(out.D.tokens) <= max_records
           /\ Len(out.D.sessions) <= max_sessions
           /\ Atomic(out)

GenerateCode ==
    GenerateCodeOver({"u1"}, PendingArgs, MaxRecords, MaxSessions)

LinkWallet ==
    \E wallet_token \in WalletTokens, code \in Codes :
      \E rec \in LinkPicks(DB, code, now) :
        Atomic(link_wallet(DB, now, wallet_token, code, WalletRpc(wallet_token),
                           WalletAccounts(wallet_token), rec))

Unlink ==
    \E client_token \in LiveClients :
        /\ ~RowLocked(ByClientToken(tokens, client_token), 0)
        /\ Atomic(unlink(DB, client_token))

UnlinkWallet ==
    \E wallet_token \in WalletTokens, link_id \in LiveLinkIds :
        /\ ~RowLocked(UnlinkWalletRec(DB, wallet_token, link_id), 0)
        /\ Atomic(unlink_wallet(DB, wallet_token, link_id))

LinkMessages ==
    \E client_token \in LiveClients,
       session_token \in LiveSessions \cup {NoSession},
       last_message_id \in {NoCursor} \cup (1..(next_lm_id - 1)) :
        Atomic(link_messages(DB, client_token, session_token, last_message_id))

WalletMessages ==
    \E wallet_token \in WalletTokens, accounts \in AccountLists,
       last_message_id \in 1..(next_wm_id - 1) :
        Atomic(wallet_messages(DB, wallet_token, accounts, last_message_id))

\* call_wallet; which notification it sends is not part of the tables
CallWalletOver(Ids, Urls) ==
    \E client_token \in LiveClients, session_token \in LiveSessions,
       accounts \in AccountLists, call_id \in Ids, return_url \in Urls :
        Atomic(call_wallet(DB, client_token, session_token, accounts, call_id,
                           return_url, TRUE))

WalletCalledOver(Ids) ==
    \E wallet_token \in WalletTokens \cup {""}, call_id \in Ids,
       session_token \in LiveSessions, result \in Results :
        Atomic(wallet_called(DB, wallet_token, call_id, session_token, result))

WalletCalled == WalletCalledOver(CallIds)

\* Spec: the pairing state machine, two clients, codes that expire
Next ==
    \/ Tick
    \/ GenerateCode
    \/ LinkWallet
    \/ Unlink
    \/ UnlinkWallet

Spec == Init /\ [][Next]_vars

\* SpecMail: pairing and the client mailbox, two clients
MailGenerateCode == GenerateCodeOver({"u1"}, {None}, MaxRecords, MaxSessions)

NextMail ==
    \/ MailGenerateCode
    \/ LinkWallet
    \/ Unlink
    \/ UnlinkWallet
    \/ LinkMessages
    \/ WalletCalled

SpecMail == Init /\ [][NextMail]_vars

\* SpecWallet: pairing and both mailboxes, one client
WalletGenerateCode ==
    GenerateCodeOver({"u1"}, {None}, MaxWalletSpecRecords, MaxSessions)
WalletCallWallet == CallWalletOver({"c1"}, CallReturnUrls)
WalletWalletCalled == WalletCalledOver({"c1"})

NextWallet ==
    \/ WalletGenerateCode
    \/ LinkWallet
    \/ Unlink
    \/ UnlinkWallet
    \/ LinkMessages
    \/ WalletWalletCalled
    \/ WalletCallWallet
    \/ WalletMessages

SpecWallet == Init /\ [][NextWallet]_vars

\* SpecPending: pairing with pending calls and the wallet mailbox, one client;
\* the calls given to generate_code have an id of their own
PendingGenerateCode ==
    GenerateCodeOver({"u1"}, {None, "c2"}, MaxWalletSpecRecords, MaxSessions)

NextPending ==
    \/ PendingGenerateCode
    \/ LinkWallet
    \/ Unlink
    \/ UnlinkWallet
    \/ WalletCallWallet
    \/ WalletMessages

SpecPending == Init /\ [][NextPending]_vars

---------------------------------------------------------------------------
(* SpecPoll: pairing and both mailboxes, one client, with each poll in two *)
(* steps: the delete of lines 82-83 or 153-154, committed on its own, and   *)
(* the select of lines 84-98 or 155-170.  Each mailbox has one poller, who  *)
(* presents the largest id received so far, or no cursor; one poll runs at *)
(* a time, the enqueues fall between its two steps.                        *)

Received(box, owner) == {e.id : e \in {x \in seen : x.box = box /\ x.owner = owner}}

\* the cursor of the poller of a mailbox
PollerCursor(box, owner) ==
    IF Received(box, owner) = {} THEN NoCursor
    ELSE CHOOSE m \in Received(box, owner) : \A n \in Received(box, owner) : n <= m

PollEntry(box, owner, accounts, cursor) ==
    [op |-> box, pc |-> "select", rec |-> 0, flushed |-> FALSE, owner |-> owner,
     accounts |-> accounts, cursor |-> cursor]

\* link_messages up to line 83, for a linked record and a session of it
PollPurge ==
    \E i \in DOMAIN tokens, s \in DOMAIN sessions :
      \E cursor \in {NoCursor, PollerCursor("link_messages", s)} :
        /\ tokens[i].linked /\ sessions[s].linked_id = i
        /\ inflight = <<>>
        /\ SetDB(PurgeLinked(DB, s, cursor))
        /\ inflight' = Append(inflight, PollEntry("link_messages", s, NoAccounts, cursor))
        /\ UNCHANGED <<now, successes, started, seen>>

\* get_linked_messages, lines 84-98
PollSelect ==
    \E j \in DOMAIN inflight :
        /\ inflight[j].op = "link_messages"
        /\ seen' = seen \cup
              {[box |-> "link_messages", owner |-> inflight[j].owner, id |-> m.id] :
                  m \in SelectLinked(DB, inflight[j].owner, inflight[j].cursor)}
        /\ inflight' = Remove(inflight, j)
        /\ UNCHANGED <<tokens, sessions, linked_msgs, wallet_msgs, next_lm_id,
                       next_wm_id, now, successes, started>>

\* wallet_messages up to line 154
WalletPollPurge ==
    \E wallet_token \in WalletTokens, accounts \in AccountLists :
      \E cursor \in {NoCursor, PollerCursor("wallet_messages", wallet_token)} :
        /\ inflight = <<>>
        /\ SetDB([DB EXCEPT !.wm =
              {m \in @ : ~(/\ cursor # NoCursor
                           /\ WalletMatch(m, wallet_token, accounts)
                           /\ m.id <= cursor)}])
        /\ inflight' = Append(inflight,
              PollEntry("wallet_messages", wallet_token, accounts, cursor))
        /\ UNCHANGED <<now, successes, started, seen>>

\* wallet_messages, lines 155-170
WalletPollSelect ==
    \E j \in DOMAIN inflight :
        /\ inflight[j].op = "wallet_messages"
        /\ seen' = seen \cup
              {[box |-> "wallet_messages", owner |-> inflight[j].owner, id |-> m.id] :
                  m \in {x \in wallet_msgs :
                           /\ WalletMatch(x, inflight[j].owner, inflight[j].accounts)
                           /\ (inflight[j].cursor = NoCursor
                               \/ x.id > inflight[j].cursor)}}
        /\ inflight' = Remove(inflight, j)
        /\ UNCHANGED <<tokens, sessions, linked_msgs, wallet_msgs, next_lm_id,
                       next_wm_id, now, successes, started>>

PollCallWallet == CallWalletOver({"c1"}, {None})

NextPoll ==
    \/ WalletGenerateCode
    \/ LinkWallet
    \/ WalletWalletCalled
    \/ PollCallWallet
    \/ PollPurge
    \/ PollSelect
    \/ WalletPollPurge
    \/ WalletPollSelect

SpecPoll == Init /\ [][NextPoll]_vars

---------------------------------------------------------------------------
(* SpecConc: generate_code and link_wallet step by step, the steps of      *)
(* different requests interleaved, within the lifetime of the codes;       *)
(* unlink and unlink_wallet are one statement and one commit each.         *)

\* the requests that will insert a record
Inserting == {j \in DOMAIN inflight : inflight[j].op = "generate_code"
                                      /\ inflight[j].pc = "commit"
                                      /\ inflight[j].rec = 0}

\* a code is issued to a record: no link has succeeded with this issuance
Issued(h, rec, code) == [h EXCEPT ![<<rec, code>>] = 0]

\* a link_wallet succeeded on the record with the code
Succeeded(h, rec, code) == [h EXCEPT ![<<rec, code>>] = @ + 1]

\* generate_code, lines 42-58
GenLoad ==
    \E client_token \in LiveClients \cup {NoToken},
       session_token \in LiveSessions \cup {NoSession},
       pending_call \in PendingArgs, force_relink \in BOOLEAN :
      \E draw \in GenDraws(DB, now, client_token, force_relink) :
        LET L == generate_code_load(DB, now, client_token, session_token, "u1",
                                    pending_call, force_relink, draw,
                                    FreshClientToken)
        IN /\ Len(inflight) < MaxInFlight
           /\ started < MaxRequests
           /\ started' = started + 1
           /\ L.pc = "commit"
           /\ L.rec = 0 => Len(tokens) + Cardinality(Inserting) < MaxRecords
           /\ L.flushed => ~RowLocked(L.rec, 0)
           /\ inflight' = Append(inflight, L)
           /\ UNCHANGED <<tokens, sessions, linked_msgs, wallet_msgs, next_lm_id,
                          next_wm_id, now, successes, seen>>

\* generate_code, lines 60-66
GenCommit ==
    \E i \in DOMAIN inflight :
        /\ inflight[i].op = "generate_code"
        /\ inflight[i].pc = "commit"
        /\ ~RowLocked(inflight[i].rec, i)
        /\ LET b == generate_code_commit(DB, inflight[i])
           IN /\ WithinBounds(b.D)
              /\ SetDB(b.D)
              /\ inflight' = IF b.L.pc = "pending"
                             THEN [inflight EXCEPT ![i] = b.L]
                             ELSE Remove(inflight, i)
              /\ successes' = IF inflight[i].gen
                              THEN Issued(successes, b.L.rec, inflight[i].code)
                              ELSE successes
        /\ UNCHANGED <<now, started, seen>>

\* generate_code, lines 67-76
GenPending ==
    \E i \in DOMAIN inflight :
        /\ inflight[i].op = "generate_code"
        /\ inflight[i].pc = "pending"
        /\ ~RowLocked(inflight[i].rec, i)
        /\ SetDB(generate_code_pending(DB, inflight[i]).D)
        /\ inflight' = Remove(inflight, i)
        /\ UNCHANGED <<now, successes, started, seen>>

\* link_wallet, lines 179-185, when the query finds a record
LinkLoad ==
    \E wallet_token \in WalletTokens, code \in Codes :
      \E rec \in ActiveByCode(tokens, code, now) :
        /\ Len(inflight) < MaxInFlight
        /\ started < MaxRequests
        /\ started' = started + 1
        /\ inflight' = Append(inflight,
               link_wallet_load(DB, wallet_token, code, WalletRpc(wallet_token),
                                WalletAccounts(wallet_token), rec))
        /\ UNCHANGED <<tokens, sessions, linked_msgs, wallet_msgs, next_lm_id,
                       next_wm_id, now, successes, seen>>

\* link_wallet, lines 187-203
LinkCommit ==
    \E i \in DOMAIN inflight :
        /\ inflight[i].op = "link_wallet"
        /\ ~RowLocked(inflight[i].rec, i)
        /\ LET out == link_wallet_commit(DB, inflight[i])
           IN WithinBounds(out.D) /\ SetDB(out.D)
        /\ inflight' = Remove(inflight, i)
        /\ successes' = Succeeded(successes, inflight[i].rec, inflight[i].code)
        /\ UNCHANGED <<now, started, seen>>

NextConc ==
    \/ GenLoad
    \/ GenCommit
    \/ GenPending
    \/ LinkLoad
    \/ LinkCommit
    \/ Unlink
    \/ UnlinkWallet

SpecConc == Init /\ [][NextConc]_vars

---------------------------------------------------------------------------
(* Properties.  One about a single call is stated on every reachable       *)
(* state: for all arguments that meet its precondition, the call, applied  *)
(* to the tables as they are, gives the result and the tables it says.     *)

RpcArgs == {WalletRpc(w) : w \in WalletTokens}
UrlArgs == {"u1", "u2"}
AccountArgs == AccountLists \cup {<<"a1", "a2">>, <<"a2", "a1">>}

\* C1: no two pairing records hold the same code while both codes are
\* unexpired, also when two generate_code requests overlap
C1_ActiveCodesDistinct ==
    \A i, j \in DOMAIN tokens :
        (i # j /\ tokens[i].code # None /\ tokens[i].code = tokens[j].code)
            => ~(tokens[i].code_expires > now /\ tokens[j].code_expires > now)

\* C2: for one issuance of a code at most one link_wallet succeeds with it,
\* also when two of them overlap; after a success the code no longer finds
\* the record, until it is issued again
C2_CodeSingleUse ==
    \A rec \in 1..MaxRecords, code \in Codes :
        /\ successes[<<rec, code>>] <= 1
        /\ successes[<<rec, code>>] >= 1 => rec \notin ActiveByCode(tokens, code, now)

\* C3: link_wallet with a code that no record holds, or that every record
\* holding it has seen expire (code_expires not later than now), returns
\* ok = FALSE and leaves records, sessions and both mailboxes as they were
C3_FailedLinkChangesNothing ==
    \A wallet_token \in WalletTokens, code \in Codes,
       current_rpc \in RpcArgs, current_accounts \in AccountLists :
        (\A i \in DOMAIN tokens :
            tokens[i].code = code => tokens[i].code_expires <= now)
        => \A rec \in LinkPicks(DB, code, now) :
              LET out == link_wallet(DB, now, wallet_token, code, current_rpc,
                                     current_accounts, rec)
              IN ~out.ret.ok /\ ~out.ret.raised /\ out.D = DB

\* a record holds a code that has expired, and link_wallet with it fails
C3_Witness ==
    \E code \in Codes, i \in DOMAIN tokens :
        /\ tokens[i].code = code
        /\ tokens[i].code_expires <= now
        /\ \A rec \in LinkPicks(DB, code, now) :
              LET out == link_wallet(DB, now, "w1", code, "rpc1", <<"a1">>, rec)
              IN ~out.ret.ok /\ out.D = DB

\* C4: after a successful link_wallet the matched record has code None,
\* linked TRUE, the caller's wallet token, the rpc and accounts supplied and
\* no pending call, and the pending call returned is the one the record held
C4_LinkedRecord ==
    \A wallet_token \in WalletTokens, code \in Codes,
       current_rpc \in RpcArgs, current_accounts \in AccountLists :
        \A rec \in ActiveByCode(tokens, code, now) :
            LET out == link_wallet(DB, now, wallet_token, code, current_rpc,
                                   current_accounts, rec)
                row == out.D.tokens[rec]
            IN /\ out.ret.ok
               /\ row.code = None
               /\ row.linked
               /\ row.wallet_token = wallet_token
               /\ row.current_rpc = current_rpc
               /\ row.current_accounts = current_accounts
               /\ row.pending_call = NoCall
               /\ out.ret.pending = tokens[rec].pending_call

\* a record with an unexpired code holds a pending call, and link_wallet
\* returns that call and clears it
C4_Witness ==
    \E code \in Codes : \E rec \in ActiveByCode(tokens, code, now) :
        /\ tokens[rec].pending_call # NoCall
        /\ LET out == link_wallet(DB, now, "w2", code, "rpc2", <<"a2">>, rec)
           IN /\ out.ret.ok
              /\ out.ret.pending = tokens[rec].pending_call
              /\ out.D.tokens[rec].pending_call = NoCall
              /\ out.D.tokens[rec].linked

\* C5: every pairing record has: code not None implies not linked, and
\* linked implies a wallet token and code None, whatever the interleaving
C5_RecordInvariant ==
    \A i \in DOMAIN tokens :
        /\ tokens[i].code # None => ~tokens[i].linked
        /\ tokens[i].linked =>
              tokens[i].wallet_token # None /\ tokens[i].code = None

\* C6: a successful link_wallet appends, to every session bound to the
\* record, exactly one NETWORK message with the rpc and one ACCOUNTS message
\* with the accounts of that link, under fresh ids, appends nothing to any
\* other session and removes nothing; so does every later relink
C6_LinkFansOut ==
    \A wallet_token \in WalletTokens, code \in Codes,
       current_rpc \in RpcArgs, current_accounts \in AccountLists :
        \A rec \in ActiveByCode(tokens, code, now) :
            LET out == link_wallet(DB, now, wallet_token, code, current_rpc,
                                   current_accounts, rec)
                new == out.D.lm \ linked_msgs
            IN /\ out.ret.ok
               /\ linked_msgs \subseteq out.D.lm
               /\ \A m \in new : m.id >= next_lm_id /\ m.session_id \in DOMAIN sessions
               /\ Cardinality({m.id : m \in new}) = Cardinality(new)
               /\ \A s \in DOMAIN sessions :
                    LET got == {m \in new : m.session_id = s}
                    IN IF sessions[s].linked_id = rec
                       THEN /\ Cardinality(got) = 2
                            /\ \E m \in got : m.type = "NETWORK" /\ m.rpc = current_rpc
                            /\ \E m \in got : /\ m.type = "ACCOUNTS"
                                              /\ m.accounts = current_accounts
                       ELSE got = {}

\* a relink: the record's session already holds the NETWORK message of an
\* earlier link, another record has a session, and link_wallet adds one pair
\* per session of the record
C6_Witness ==
    \E code \in Codes : \E rec \in ActiveByCode(tokens, code, now) :
        /\ \E s \in SessionsOf(sessions, rec) : \E m \in linked_msgs :
              m.session_id = s /\ m.type = "NETWORK" /\ m.rpc = "rpc1"
        /\ \E s \in DOMAIN sessions : sessions[s].linked_id # rec
        /\ LET out == link_wallet(DB, now, "w2", code, "rpc2", <<"a2">>, rec)
           IN /\ out.ret.ok
              /\ Cardinality(out.D.lm \ linked_msgs)
                    = 2 * Cardinality(SessionsOf(sessions, rec))

C8_CallNeedsLink ==
    \A client_token \in ClientArgs, session_token \in SessionArgs,
       accounts \in AccountLists, call_id \in CallIds,
       return_url \in CallReturnUrls, info \in BOOLEAN :
        (\A i \in DOMAIN tokens :
            tokens[i].client_token = client_token => ~tokens[i].linked)
        => LET out == call_wallet(DB, client_token, session_token, accounts,
                                  call_id, return_url, info)
           IN /\ ~out.ret.ok
              /\ ~out.ret.raised
              /\ out.D = DB
              /\ out.ret.notify = None

\* a record that was linked and is not any more, with a session of its own:
\* the call of that session is refused
C8_Witness ==
    \E i \in DOMAIN tokens : \E s \in SessionsOf(sessions, i) :
        /\ ~tokens[i].linked
        /\ tokens[i].wallet_token = "w1"
        /\ LET out == call_wallet(DB, tokens[i].client_token,
                                  sessions[s].session_token, <<"a1">>, "c1",
                                  None, TRUE)
           IN ~out.ret.ok /\ out.D.wm = wallet_msgs /\ out.ret.notify = None

\* C9: wallet_called for a session whose record has another wallet token
\* than the caller's raises and adds no message to any client mailbox
C9_OtherWalletRefused ==
    \A wallet_token \in WalletTokens \cup {""}, call_id \in CallIds,
       session_token \in SessionTokens, result \in Results :
        (\E s \in DOMAIN sessions :
            /\ sessions[s].session_token = session_token
            /\ sessions[s].linked_id \in DOMAIN tokens
            /\ tokens[sessions[s].linked_id].wallet_token # wallet_token)
        => LET out == wallet_called(DB, wallet_token, call_id, session_token, result)
           IN out.ret.raised /\ ~out.ret.ok /\ out.D = DB

\* a session of a record linked to one wallet, and the other wallet's
\* delivery for it is refused
C9_Witness ==
    \E s \in DOMAIN sessions :
        /\ tokens[sessions[s].linked_id].linked
        /\ tokens[sessions[s].linked_id].wallet_token = "w1"
        /\ LET out == wallet_called(DB, "w2", "c1", sessions[s].session_token, "r1")
           IN out.ret.raised /\ out.D.lm = linked_msgs

\* C10: wallet_called for a session whose record is not linked raises and
\* adds no message to any client mailbox
C10_UnlinkedRefused ==
    \A wallet_token \in WalletTokens, call_id \in CallIds,
       session_token \in SessionTokens, result \in Results :
        (\E s \in DOMAIN sessions :
            /\ sessions[s].session_token = session_token
            /\ sessions[s].linked_id \in DOMAIN tokens
            /\ ~tokens[sessions[s].linked_id].linked)
        => LET out == wallet_called(DB, wallet_token, call_id, session_token, result)
           IN out.ret.raised /\ out.D.lm = linked_msgs

\* C11: generate_code without a client token returns a fresh client token, a
\* session token, a non-empty code and linked = FALSE; link_wallet with that
\* code then returns ok and the return url given to generate_code; the poll
\* of that client and session without a cursor then returns linked = TRUE
\* and exactly two messages, NETWORK first and ACCOUNTS second, ids ascending
C11_PairingScenario ==
    \A return_url \in UrlArgs, pending_call \in PendingArgs,
       wallet_token \in WalletTokens, current_rpc \in RpcArgs,
       current_accounts \in AccountLists :
      \A draw \in GenDraws(DB, now, NoToken, FALSE) \ {RaiseDraw} :
        LET g == generate_code(DB, now, NoToken, NoSession, return_url,
                               pending_call, FALSE, draw, FreshClientToken)
        IN /\ g.ret.ok
           /\ \A i \in DOMAIN tokens : tokens[i].client_token # g.ret.client_token
           /\ g.ret.session_token # NoSession
           /\ g.ret.code \notin {None, ""}
           /\ ~g.ret.linked
           /\ \A rec \in LinkPicks(g.D, g.ret.code, now) :
                LET l == link_wallet(g.D, now, wallet_token, g.ret.code,
                                     current_rpc, current_accounts, rec)
                    p == link_messages(l.D, g.ret.client_token,
                                       g.ret.session_token, NoCursor)
                IN /\ l.ret.ok
                   /\ l.ret.return_url = return_url
                   /\ p.ret.linked
                   /\ Cardinality(p.ret.msgs) = 2
                   /\ \A list \in RowOrders(p.ret.msgs) :
                        /\ list[1].type = "NETWORK"
                        /\ list[2].type = "ACCOUNTS"
                        /\ list[1].id < list[2].id

\* C12: a call given to generate_code while the record is unlinked reaches
\* the wallet only as the pending call link_wallet returns: generate_code
\* and link_wallet add no wallet message, link_wallet returns the call the
\* record held, and no wallet poll returns a call given to generate_code
\* (those calls have the id "c2", which no call_wallet uses)
C12_PendingNotMailed ==
    /\ \A client_token \in ClientArgs, session_token \in SessionArgs,
          return_url \in UrlArgs, force_relink \in BOOLEAN :
         \A draw \in GenDraws(DB, now, client_token, force_relink) :
            generate_code(DB, now, client_token, session_token, return_url, "c2",
                          force_relink, draw, FreshClientToken).D.wm = wallet_msgs
    /\ \A wallet_token \in WalletTokens, code \in Codes,
          current_rpc \in RpcArgs, current_accounts \in AccountLists :
         \A rec \in ActiveByCode(tokens, code, now) :
            LET out == link_wallet(DB, now, wallet_token, code, current_rpc,
                                   current_accounts, rec)
            IN /\ out.D.wm = wallet_msgs
               /\ out.ret.pending = tokens[rec].pending_call
    /\ \A m \in wallet_msgs : m.call_id # "c2"
    /\ \A wallet_token \in WalletTokens, accounts \in AccountLists,
          last_message_id \in {NoCursor} \cup (1..MaxWalletMsgId) :
         \A m \in wallet_messages(DB, wallet_token, accounts, last_message_id).ret.msgs :
            m.call_id # "c2"

\* a record holds the call "c2" and an unexpired code while the wallet's
\* mailbox holds a call of call_wallet: link_wallet returns "c2" and leaves
\* the mailbox as it is
C12_Witness ==
    \E code \in Codes : \E rec \in ActiveByCode(tokens, code, now) :
        /\ tokens[rec].pending_call.call_id = "c2"
        /\ wallet_msgs # {}
        /\ LET out == link_wallet(DB, now, "w1", code, "rpc1", <<"a1">>, rec)
           IN /\ out.ret.ok
              /\ out.ret.pending.call_id = "c2"
              /\ out.D.wm = wallet_msgs

\* C13: on a linked record, call_wallet with a call id c not yet in use, from
\* a session of the record, succeeds; the wallet's next poll (its token, a
\* first account among those of the call, any cursor it can hold) returns
\* exactly one message with call_id c, a CALL with that session's token;
\* wallet_called(wallet token, c, session token, r) then succeeds, and the
\* next poll of the session (any cursor it can hold) returns exactly one
\* CALL_RESPONSE with call_id c, and its result is r
C13_CallRoundTrip ==
    \A i \in DOMAIN tokens, s \in DOMAIN sessions, call_id \in CallIds :
      (/\ tokens[i].linked
       /\ sessions[s].linked_id = i
       /\ \A m \in wallet_msgs : m.call_id # call_id
       /\ \A m \in linked_msgs : m.call_id # call_id)
      => \A accounts \in AccountArgs, return_url \in CallReturnUrls, info \in BOOLEAN :
           LET st == sessions[s].session_token
               c == call_wallet(DB, tokens[i].client_token, st, accounts, call_id,
                                return_url, info)
           IN /\ c.ret.ok
              /\ \A poll_accounts \in AccountArgs,
                    cursor \in {NoCursor} \cup (1..(next_wm_id - 1)) :
                   Contains(accounts, poll_accounts[1]) =>
                     LET p == wallet_messages(c.D, tokens[i].wallet_token,
                                              poll_accounts, cursor)
                         d == wallet_called(p.D, tokens[i].wallet_token, call_id,
                                            st, "r1")
                     IN /\ Cardinality({m \in p.ret.msgs : m.call_id = call_id}) = 1
                        /\ \A m \in p.ret.msgs :
                             m.call_id = call_id =>
                               m.type = "CALL" /\ m.session_token = st
                        /\ d.ret.ok
                        /\ \A last_message_id \in {NoCursor} \cup (1..(next_lm_id - 1)) :
                             LET q == link_messages(d.D, tokens[i].client_token, st,
                                                    last_message_id)
                                 got == {m \in q.ret.msgs : /\ m.type = "CALL_RESPONSE"
                                                            /\ m.call_id = call_id}
                             IN /\ q.ret.session_token = st
                                /\ Cardinality(got) = 1
                                /\ \A m \in got : m.result = "r1"

\* a linked record whose wallet already has a call in its mailbox and whose
\* session has messages: the round trip of the call "c2" goes through
C13_Witness ==
    \E i \in DOMAIN tokens : \E s \in SessionsOf(sessions, i) :
        /\ tokens[i].linked
        /\ \E m \in wallet_msgs : m.wallet_token = tokens[i].wallet_token
        /\ \E m \in linked_msgs : m.session_id = s
        /\ LET st == sessions[s].session_token
               c == call_wallet(DB, tokens[i].client_token, st, <<"a1">>, "c2",
                                None, TRUE)
               p == wallet_messages(c.D, tokens[i].wallet_token, <<"a1">>, NoCursor)
               d == wallet_called(p.D, tokens[i].wallet_token, "c2", st, "r1")
               q == link_messages(d.D, tokens[i].client_token, st, NoCursor)
           IN /\ c.ret.ok
              /\ \E m \in p.ret.msgs : m.call_id = "c2" /\ m.session_token = st
              /\ d.ret.ok
              /\ \E m \in q.ret.msgs : /\ m.type = "CALL_RESPONSE"
                                       /\ m.call_id = "c2"

\* C14: a record that is not linked has no wallet token (None, or the empty
\* string unlink_wallet leaves); in particular unlink on a linked record
\* leaves it with linked = FALSE and no wallet token
C14_WalletOnlyWhileLinked ==
    /\ \A i \in DOMAIN tokens :
          ~tokens[i].linked => tokens[i].wallet_token \in {None, ""}
    /\ \A i \in DOMAIN tokens :
          tokens[i].linked =>
             LET row == unlink(DB, tokens[i].client_token).D.tokens[i]
             IN ~row.linked /\ row.wallet_token \in {None, ""}

\* C15: generate_code, link_messages, call_wallet and unlink with a client
\* token that no record has do not raise and change no table
C15_UnknownClientIsSoft ==
    \A client_token \in ClientArgs \ {NoToken} :
      (\A i \in DOMAIN tokens : tokens[i].client_token # client_token)
      => /\ \A session_token \in SessionArgs, return_url \in UrlArgs,
               pending_call \in PendingArgs, force_relink \in BOOLEAN :
              \A draw \in GenDraws(DB, now, client_token, force_relink) :
                LET out == generate_code(DB, now, client_token, session_token,
                                         return_url, pending_call, force_relink,
                                         draw, FreshClientToken)
                IN ~out.ret.raised /\ out.D = DB
         /\ \A session_token \in SessionArgs,
               last_message_id \in {NoCursor} \cup (1..MaxMsgId) :
              LET out == link_messages(DB, client_token, session_token,
                                       last_message_id)
              IN ~out.ret.raised /\ out.D = DB /\ out.ret.msgs = {}
                 /\ ~out.ret.linked
         /\ \A session_token \in SessionArgs, accounts \in AccountArgs,
               call_id \in CallIds, return_url \in CallReturnUrls :
              LET out == call_wallet(DB, client_token, session_token, accounts,
                                     call_id, return_url, TRUE)
              IN ~out.ret.raised /\ out.D = DB /\ ~out.ret.ok
         /\ LET out == unlink(DB, client_token)
            IN ~out.ret.raised /\ out.D = DB

\* ids and keys for _hash_id; the keys are strings of digits, so that the
\* formatted strings of different ids can meet (12 then "1" and 1 then "21")
HashIds == {1, 2, 12}
HashKeys == {<<1>>, <<2>>, <<1, 2>>, <<2, 1>>}

C17_UnlinkIdempotent ==
    \A client_token \in ClientArgs :
       LET rec == ByClientToken(DB.tokens, client_token)
           once == unlink(DB, client_token)
           twice == unlink(once.D, client_token)
       IN /\ once.ret.ok /\ ~once.ret.raised
          /\ twice.ret.ok /\ ~twice.ret.raised
          /\ twice.D = once.D
          /\ (rec = 0 \/ ~tokens[rec].linked) => once.D = DB
          /\ once.D.sessions = sessions
          /\ once.D.lm = linked_msgs /\ once.D.wm = wallet_msgs
          /\ once.D.nl = next_lm_id /\ once.D.nw = next_wm_id

C17_Witness ==
    \E i \in DOMAIN tokens :
       /\ tokens[i].linked
       /\ linked_msgs # {} /\ wallet_msgs # {}
       /\ unlink(DB, tokens[i].client_token).D # DB
       /\ ~unlink(DB, tokens[i].client_token).D.tokens[i].linked

\* the link ids of every id and client token of the model, those of no record
\* and of a record under another record's token included
LinkIdArgs == {_hash_id(i, c) : i \in 1..MaxRecords, c \in ClientTokens}

\* C18: unlink_wallet returns True exactly when a record of the wallet is
\* linked and has the given link id; then that record ends unlinked with no
\* wallet token and nothing else changes; otherwise nothing changes
C18_UnlinkWalletExact ==
    \A wallet_token \in WalletTokens \cup {""}, link_id \in LinkIdArgs :
       LET M == {i \in DOMAIN tokens :
                   /\ tokens[i].wallet_token = wallet_token
                   /\ tokens[i].linked
                   /\ _hash_id(i, tokens[i].client_token) = link_id}
           out == unlink_wallet(DB, wallet_token, link_id)
       IN /\ ~out.ret.raised
          /\ out.ret.ok <=> M # {}
          /\ M = {} => out.D = DB
          /\ M # {} =>
               \E i \in M :
                  /\ ~out.D.tokens[i].linked
                  /\ out.D.tokens[i].wallet_token \in {None, ""}
                  /\ out.D = [DB EXCEPT !.tokens[i].linked = FALSE,
                                        !.tokens[i].wallet_token =
                                            out.D.tokens[i].wallet_token]

C18_Witness ==
    \E i \in DOMAIN tokens, j \in DOMAIN tokens :
       /\ i # j /\ tokens[i].linked /\ tokens[j].linked
       /\ tokens[i].wallet_token # tokens[j].wallet_token
       /\ unlink_wallet(DB, tokens[i].wallet_token,
                        _hash_id(i, tokens[i].client_token)).ret.ok
       /\ ~unlink_wallet(DB, tokens[j].wallet_token,
                         _hash_id(i, tokens[i].client_token)).ret.ok

\* C19: generate_code without force_relink on a linked record returns the
\* empty code and linked = True and leaves the record as it was, with or
\* without a pending call
C19_LinkedRequestKeepsRecord ==
    \A i \in DOMAIN tokens :
      tokens[i].linked =>
        \A session_token \in SessionArgs, return_url \in UrlArgs,
           pending_call \in PendingArgs \cup CallIds :
          \A draw \in GenDraws(DB, now, tokens[i].client_token, FALSE) :
            LET out == generate_code(DB, now, tokens[i].client_token,
                                     session_token, return_url, pending_call,
                                     FALSE, draw, FreshClientToken)
            IN /\ ~out.ret.raised
               /\ out.ret.code = "" /\ out.ret.linked
               /\ out.D.tokens[i] = tokens[i]

C19_Witness ==
    \E i \in DOMAIN tokens :
       /\ tokens[i].linked
       /\ tokens[i].current_return_url = "u1"
       /\ LET out == generate_code(DB, now, tokens[i].client_token, NoSession,
                                   "u2", "c2", FALSE, None, FreshClientToken)
          IN /\ out.ret.linked /\ out.ret.code = ""
             /\ out.D.tokens[i].current_return_url = "u1"
             /\ out.D.tokens[i].pending_call = tokens[i].pending_call

\* C20: generate_code with force_relink on an existing record, linked or not,
\* when _generate_code returns a code: the record ends unlinked, with no
\* wallet token, that code, an expiry after now and the given return url, and
\* the call returns that code with linked = False
C20_ForceRelinkReissues ==
    \A i \in DOMAIN tokens :
      \A session_token \in SessionArgs, return_url \in UrlArgs,
         pending_call \in PendingArgs :
        \A draw \in GenDraws(DB, now, tokens[i].client_token, TRUE) \ {RaiseDraw} :
          LET out == generate_code(DB, now, tokens[i].client_token,
                                   session_token, return_url, pending_call,
                                   TRUE, draw, FreshClientToken)
              row == out.D.tokens[i]
          IN /\ ~out.ret.raised
             /\ ~row.linked /\ row.wallet_token = None
             /\ draw \in Codes /\ row.code = draw
             /\ ActiveByCode(DB.tokens, draw, now) = {}
             /\ row.code_expires > now
             /\ row.current_return_url = return_url
             /\ out.ret.code = row.code /\ ~out.ret.linked

C20_Witness ==
    \E i \in DOMAIN tokens, draw \in Codes :
       /\ tokens[i].linked /\ tokens[i].wallet_token = "w1"
       /\ tokens[i].current_return_url = "u1"
       /\ draw \in GenDraws(DB, now, tokens[i].client_token, TRUE)
       /\ LET out == generate_code(DB, now, tokens[i].client_token, NoSession,
                                   "u2", None, TRUE, draw, FreshClientToken)
          IN /\ ~out.D.tokens[i].linked
             /\ out.D.tokens[i].wallet_token = None
             /\ out.D.tokens[i].current_return_url = "u2"
             /\ out.ret.code = draw

CursorArgs == {NoCursor} \cup (1..MaxMsgId)

\* C21: a client poll for a record that is not linked returns no message and
\* linked = False and changes no table (no session, no message deleted or
\* appended), whatever session token and cursor it presents
C21_UnlinkedPollIsEmpty ==
    \A i \in DOMAIN tokens :
      ~tokens[i].linked =>
        \A session_token \in SessionArgs, last_message_id \in CursorArgs :
          LET out == link_messages(DB, tokens[i].client_token, session_token,
                                   last_message_id)
          IN /\ ~out.ret.raised
             /\ out.ret.msgs = {} /\ ~out.ret.linked
             /\ out.D = DB

\* an unlinked record whose session still holds messages that a poll with
\* that cursor would purge were the record linked
C21_Witness ==
    \E i \in DOMAIN tokens, s \in DOMAIN sessions, m \in linked_msgs :
       /\ ~tokens[i].linked
       /\ sessions[s].linked_id = i /\ m.session_id = s
       /\ LET out == link_messages(DB, tokens[i].client_token,
                                   sessions[s].session_token, m.id)
          IN out.ret.msgs = {} /\ ~out.ret.linked /\ out.D = DB

\* C22: a client poll for a linked record with no session token, or one that
\* is not a session of the record, does not raise, appends exactly one session
\* bound to the record, seeds it with one NETWORK and one ACCOUNTS message
\* of the record's rpc and accounts and nothing else, and returns the new
\* session's token with linked = True; with a cursor below the ids issued so
\* far both seeds are still there and are returned.  With a session of the
\* record no session is appended
C22_PollEnsuresSession ==
    \A i \in DOMAIN tokens :
      tokens[i].linked =>
        \A session_token \in SessionArgs, last_message_id \in CursorArgs :
          LET out == link_messages(DB, tokens[i].client_token, session_token,
                                   last_message_id)
              new == Len(sessions) + 1
              net == LinkedMessage(next_lm_id, new, "NETWORK",
                                   tokens[i].current_rpc, NoAccounts, None, None)
              acc == LinkedMessage(next_lm_id + 1, new, "ACCOUNTS", None,
                                   tokens[i].current_accounts, None, None)
          IN /\ ~out.ret.raised /\ out.ret.linked
             /\ IF session_token # NoSession
                   /\ \E s \in DOMAIN sessions :
                         /\ sessions[s].session_token = session_token
                         /\ sessions[s].linked_id = i
                THEN /\ out.D.sessions = sessions
                     /\ out.ret.session_token = session_token
                     /\ out.D.lm \subseteq linked_msgs
                ELSE /\ out.D.sessions =
                           Append(sessions, [session_token |-> out.ret.session_token,
                                             linked_id |-> i])
                     /\ \A s \in DOMAIN sessions :
                           sessions[s].session_token # out.ret.session_token
                     /\ out.D.lm \ linked_msgs \subseteq {net, acc}
                     /\ linked_msgs \subseteq out.D.lm
                     /\ last_message_id < next_lm_id =>
                           /\ out.D.lm = linked_msgs \cup {net, acc}
                           /\ out.ret.msgs = {LinkedMessageDict(net),
                                              LinkedMessageDict(acc)}

\* a linked record polled with a session token of another record
C22_Witness ==
    \E i \in DOMAIN tokens, s \in DOMAIN sessions :
       /\ tokens[i].linked /\ sessions[s].linked_id # i
       /\ LET out == link_messages(DB, tokens[i].client_token,
                                   sessions[s].session_token, NoCursor)
          IN /\ Len(out.D.sessions) = Len(sessions) + 1
             /\ out.ret.session_token # sessions[s].session_token
             /\ Cardinality(out.ret.msgs) = 2

\* C23: every message has an id below the next id of its table, so that an
\* enqueue gets an id above every earlier one, and every poll, of a client or
\* of a wallet, returns its messages in ascending id order
C23_AscendingIds ==
    /\ \A m \in linked_msgs : m.id < next_lm_id
    /\ \A m \in wallet_msgs : m.id < next_wm_id
    /\ \A i \in DOMAIN tokens, session_token \in SessionArgs,
          last_message_id \in CursorArgs :
         LET p == link_messages(DB, tokens[i].client_token, session_token,
                                last_message_id)
         IN \A list \in RowOrders(p.ret.msgs) :
               \A k \in 1..(Len(list) - 1) : list[k].id < list[k + 1].id
    /\ \A wallet_token \in WalletTokens, accounts \in AccountArgs,
          last_message_id \in {NoCursor} \cup (1..MaxWalletMsgId) :
         LET p == wallet_messages(DB, wallet_token, accounts, last_message_id)
         IN \A list \in RowOrders(p.ret.msgs) :
               \A k \in 1..(Len(list) - 1) : list[k].id < list[k + 1].id

\* C24: generate_code with a call, on a new record, an unlinked record or
\* under force_relink (the record is unlinked once the code is issued),
\* leaves the record with that call as its pending call, whatever it held
\* before, tagged with the session token the same generate_code returns,
\* which is a session of the record
C24_PendingCallStored ==
    \A client_token \in LiveClients \cup {NoToken}, session_token \in SessionArgs,
       return_url \in UrlArgs, pending_call \in CallIds, force_relink \in BOOLEAN :
      \A draw \in GenDraws(DB, now, client_token, force_relink) \ {RaiseDraw} :
        LET out == generate_code(DB, now, client_token, session_token, return_url,
                                 pending_call, force_relink, draw, FreshClientToken)
            rec == out.ret.rec
        IN ~out.ret.linked =>
             /\ ~out.ret.raised /\ rec \in DOMAIN out.D.tokens
             /\ out.D.tokens[rec].client_token = out.ret.client_token
             /\ ~out.D.tokens[rec].linked
             /\ out.D.tokens[rec].pending_call =
                   [call_id |-> pending_call,
                    session_token |-> out.ret.session_token]
             /\ SessionOf(out.D.sessions, out.ret.session_token, rec) # 0

\* a record that holds the call c1 is given the call c2 without a session
C24_Witness ==
    \E i \in DOMAIN tokens, draw \in Codes :
       /\ ~tokens[i].linked /\ tokens[i].pending_call.call_id = "c1"
       /\ draw \in GenDraws(DB, now, tokens[i].client_token, FALSE)
       /\ LET out == generate_code(DB, now, tokens[i].client_token, NoSession,
                                   "u1", "c2", FALSE, draw, FreshClientToken)
          IN /\ out.D.tokens[i].pending_call.call_id = "c2"
             /\ out.D.tokens[i].pending_call.session_token
                   # tokens[i].pending_call.session_token
             /\ out.D.tokens[i].pending_call.session_token = out.ret.session_token

\* C25: a message is deleted only after a poll of its owner has returned
\* it: every id issued so far is still in its table or has been returned
C25_NoMessageLost ==
    /\ \A id \in 1..(next_lm_id - 1) :
          \/ \E m \in linked_msgs : m.id = id
          \/ \E e \in seen : e.box = "link_messages" /\ e.id = id
    /\ \A id \in 1..(next_wm_id - 1) :
          \/ \E m \in wallet_msgs : m.id = id
          \/ \E e \in seen : e.box = "wallet_messages" /\ e.id = id

\* C26: generate_code on an unlinked record whose code has not expired
\* replaces that code: afterwards link_wallet and link_info with the previous
\* code find no record, and the record is found by one code only, the one
\* the call returned
C26_NewCodeReplacesOld ==
    \A i \in DOMAIN tokens :
      (/\ ~tokens[i].linked /\ tokens[i].code \in Codes
       /\ i \in ActiveByCode(tokens, tokens[i].code, now)) =>
        \A session_token \in SessionArgs, return_url \in UrlArgs,
           pending_call \in PendingArgs, force_relink \in BOOLEAN :
          \A draw \in GenDraws(DB, now, tokens[i].client_token, force_relink) \ {RaiseDraw} :
            LET out == generate_code(DB, now, tokens[i].client_token,
                                     session_token, return_url, pending_call,
                                     force_relink, draw, FreshClientToken)
                prev == tokens[i].code
            IN /\ out.ret.code # prev
               /\ out.D.tokens[i].code = out.ret.code
               /\ \A rec \in LinkPicks(out.D, prev, now) :
                     /\ \A wallet_token \in WalletTokens :
                           ~link_wallet(out.D, now, wallet_token, prev,
                                        WalletRpc(wallet_token),
                                        WalletAccounts(wallet_token), rec).ret.ok
                     /\ ~link_info(out.D, rec).found
               /\ \A code \in Codes :
                     i \in LinkPicks(out.D, code, now) => code = out.ret.code

C26_Witness ==
    \E i \in DOMAIN tokens, draw \in Codes :
       /\ ~tokens[i].linked /\ tokens[i].code \in Codes
       /\ i \in ActiveByCode(tokens, tokens[i].code, now)
       /\ link_info(DB, i).found
       /\ draw \in GenDraws(DB, now, tokens[i].client_token, FALSE)
       /\ LET out == generate_code(DB, now, tokens[i].client_token, NoSession,
                                   "u1", None, FALSE, draw, FreshClientToken)
          IN /\ LinkPicks(out.D, tokens[i].code, now) = {0}
             /\ LinkPicks(out.D, draw, now) = {i}
             /\ link_info(out.D, i).found

\* C27: a wallet_called that succeeds appends exactly one message, a
\* CALL_RESPONSE with the given call id and result, to the session of its
\* session token, and changes nothing else; a client poll returns only
\* messages of the session it returns and deletes only messages of that
\* session, so that no other session of the record gets the CALL_RESPONSE
C27_ClientMailboxIsolated ==
    /\ \A wallet_token \in WalletTokens, call_id \in CallIds,
          session_token \in SessionArgs, result \in Results :
         LET out == wallet_called(DB, wallet_token, call_id, session_token, result)
             sid == SessionByToken(sessions, session_token)
         IN IF out.ret.ok
            THEN /\ sid # 0
                 /\ out.D = [DB EXCEPT
                       !.lm = @ \cup {LinkedMessage(next_lm_id, sid, "CALL_RESPONSE",
                                                    None, NoAccounts, call_id, result)},
                       !.nl = @ + 1]
                 /\ \A m \in linked_msgs : m.id # next_lm_id
                 /\ \A i \in DOMAIN tokens, other \in DOMAIN sessions,
                       last_message_id \in CursorArgs :
                      other # sid =>
                        \A e \in link_messages(out.D, tokens[i].client_token,
                                               sessions[other].session_token,
                                               last_message_id).ret.msgs :
                           e.id # next_lm_id
            ELSE out.D = DB
    /\ \A i \in DOMAIN tokens, session_token \in SessionArgs,
          last_message_id \in CursorArgs :
         LET out == link_messages(DB, tokens[i].client_token, session_token,
                                  last_message_id)
             sid == SessionOf(out.D.sessions, out.ret.session_token, i)
         IN out.ret.linked =>
              /\ sid # 0
              /\ \A e \in out.ret.msgs :
                    \E m \in out.D.lm : m.id = e.id /\ m.session_id = sid
              /\ \A m \in linked_msgs \ out.D.lm : m.session_id = sid

\* a record with two sessions: the answer goes to one, the poll of the other
\* does not return it, the poll of the one does
C27_Witness ==
    \E i \in DOMAIN tokens, s1 \in DOMAIN sessions, s2 \in DOMAIN sessions :
       /\ s1 # s2 /\ tokens[i].linked
       /\ sessions[s1].linked_id = i /\ sessions[s2].linked_id = i
       /\ LET out == wallet_called(DB, tokens[i].wallet_token, "c1",
                                   sessions[s1].session_token, "r1")
          IN /\ out.ret.ok
             /\ \E e \in link_messages(out.D, tokens[i].client_token,
                                       sessions[s1].session_token, NoCursor).ret.msgs :
                   e.type = "CALL_RESPONSE" /\ e.id = next_lm_id
             /\ \A e \in link_messages(out.D, tokens[i].client_token,
                                       sessions[s2].session_token, NoCursor).ret.msgs :
                   e.type # "CALL_RESPONSE"
             /\ link_messages(out.D, tokens[i].client_token,
                              sessions[s2].session_token, NoCursor).ret.msgs # {}

\* a wallet poll returns and deletes only messages of its wallet token whose
\* accounts contain the first account it presents
WalletPollIsolated ==
    \A wallet_token \in WalletTokens, accounts \in AccountArgs,
       last_message_id \in {NoCursor} \cup (1..MaxWalletMsgId) :
      LET out == wallet_messages(DB, wallet_token, accounts, last_message_id)
      IN /\ \A e \in out.ret.msgs :
               \E m \in wallet_msgs :
                  /\ m.id = e.id /\ m.wallet_token = wallet_token
                  /\ Contains(m.current_accounts, accounts[1])
         /\ \A m \in wallet_msgs \ out.D.wm :
               m.wallet_token = wallet_token
               /\ Contains(m.current_accounts, accounts[1])
         /\ out.D.wm \subseteq wallet_msgs

\* a step adds a wallet message only with the wallet token of a linked
\* record, and changes no wallet message that exists
WalletAddressKept ==
    \A m \in wallet_msgs' :
       \/ m \in wallet_msgs
       \/ /\ \A x \in wallet_msgs : x.id # m.id
          /\ \E i \in DOMAIN tokens :
                tokens[i].linked /\ m.wallet_token = tokens[i].wallet_token

\* C28: a wallet poll returns and deletes only messages of its wallet token
\* whose accounts contain its first account; a call is addressed to the
\* wallet the client is linked to when it is submitted and keeps that
\* address, also when the client is later linked to another wallet
C28_WalletMailboxIsolated == [](WalletPollIsolated) /\ [][WalletAddressKept]_vars

\* the client is linked to another wallet than the one a stored call is
\* addressed to: the call goes to the old wallet's poll, not to the new one's
C28_Witness ==
    \E i \in DOMAIN tokens, m \in wallet_msgs :
       /\ tokens[i].linked /\ tokens[i].wallet_token \in WalletTokens
       /\ m.wallet_token \in WalletTokens
       /\ m.wallet_token # tokens[i].wallet_token
       /\ sessions[SessionByToken(sessions, m.session_token)].linked_id = i
       /\ \E e \in wallet_messages(DB, m.wallet_token, m.current_accounts,
                                   NoCursor).ret.msgs : e.id = m.id
       /\ \A e \in wallet_messages(DB, tokens[i].wallet_token, m.current_accounts,
                                   NoCursor).ret.msgs : e.id # m.id

\* C29: call_wallet for a linked client with a session token that is not a
\* session of the client's record (none, unknown, or of another record)
\* raises, appends no wallet message, changes no table and sends no
\* notification
C29_CallNeedsOwnSession ==
    \A i \in DOMAIN tokens :
      tokens[i].linked =>
        \A session_token \in SessionArgs, accounts \in AccountArgs,
           call_id \in CallIds, return_url \in CallReturnUrls, info \in BOOLEAN :
          (~\E s \in DOMAIN sessions : /\ sessions[s].session_token = session_token
                                       /\ sessions[s].linked_id = i)
          => LET out == call_wallet(DB, tokens[i].client_token, session_token,
                                    accounts, call_id, return_url, info)
             IN /\ out.ret.raised /\ ~out.ret.ok
                /\ out.D = DB
                /\ out.ret.notify = None

\* a linked client presents a session of another record
C29_Witness ==
    \E i \in DOMAIN tokens, s \in DOMAIN sessions :
       /\ tokens[i].linked /\ sessions[s].linked_id # i
       /\ \E own \in DOMAIN sessions : sessions[own].linked_id = i
       /\ call_wallet(DB, tokens[i].client_token, sessions[s].session_token,
                      <<"a1">>, "c1", None, TRUE).ret.raised

\* C30: in every state a linked record holds no pending call, however the
\* steps of generate_code with a call and of link_wallet interleave
C30_LinkedHasNoPendingCall ==
    \A i \in DOMAIN tokens : tokens[i].linked => tokens[i].pending_call = NoCall

====
